---- MODULE Spec2Model ----
(***************************************************************************)
(* Model of src/Python/3_demographics/demographics.py: the module-level    *)
(* tables, the three rate functions get_survival, get_immigration and      *)
(* get_fert, and get_omega with its time loop.                             *)
(*                                                                         *)
(* Numbers are exact rationals <<n, d>> (d > 0, lowest terms), extended    *)
(* with the three IEEE values numpy produces on a division by zero:        *)
(* <<1, 0>> (+inf), <<-1, 0>> (-inf) and <<0, 0>> (nan).  Rounding of      *)
(* binary floating point is not modelled.                                  *)
(*                                                                         *)
(* poly.polyfit / poly.polyval are library code: the values of a fitted    *)
(* polynomial at the evaluation points are inputs of the model             *)
(* (poly_surv, poly_imm, poly_fert), fixed at import time because the      *)
(* tables they are fitted to (mort_data, fert_data, data_raw) are never    *)
(* written after import.                                                   *)
(***************************************************************************)
EXTENDS Integers, Sequences, FiniteSets, TLC

\* ------------------------------------------------------------------------
\* Bounds of the model
\* ------------------------------------------------------------------------
\* ability types J range over 1..MaxJ
MaxJ == 2
\* the longest projection: T ranges over TValues, up to MaxT periods
MaxT == 17
\* calls of get_omega in one run of the program
MaxCalls == 2
\* the raw population table has rows for ages 0..LastAge
LastAge == 77
\* population counts are 1..MaxCount
MaxCount == 3
\* the largest tensor built: S * J * T <= MaxCells
MaxCells == 102

\* ------------------------------------------------------------------------
\* Constants of the program
\* ------------------------------------------------------------------------
\* np.linspace(15, 75, 60): 60 evaluation points from FitLo to FitHi
NPoints == 60
FitLo == 15
FitHi == 75
\* data = data[16:76] and np.linspace(16, 76, S+1)
AgeLo == 16
AgeHi == 76
\* children_rate: mort_data.age < 15; children = np.zeros((15, J))
NChildren == 15
\* np.linspace(1, 75, 74): the immigration polynomial's evaluation points
NImm == 74
\* im_array[15:76]
ImmLo == 15
ImmHi == 76
\* children_im = im_array[0:14]
NChildIm == 14
\* pop_2010[1:76], pop_2011[2:77]
PopLo == 1
PopHi == 76
\* fertility is zeroed at ages above FertMaxAge or below FertMinAge
FertMaxAge == 50
FertMinAge == 10

Years == {"2010", "2011", "2012", "2013"}

\* ------------------------------------------------------------------------
\* Arithmetic
\* ------------------------------------------------------------------------
Abs(n) == IF n < 0 THEN -n ELSE n

Sgn(n) == IF n < 0 THEN -1 ELSE IF n > 0 THEN 1 ELSE 0

Min(a, b) == IF a < b THEN a ELSE b

Max(a, b) == IF a < b THEN b ELSE a

RECURSIVE GCD(_, _)
GCD(a, b) == IF b = 0 THEN a ELSE GCD(b, a % b)

\* the rational n/d in lowest terms; n/0 is +inf, -inf or nan by the sign of n
Norm(n, d) ==
    IF d = 0 THEN <<Sgn(n), 0>>
    ELSE IF d = 1 THEN <<n, 1>>
    ELSE LET g == GCD(Abs(n), Abs(d))
         IN  <<Sgn(d) * (n \div g), Abs(d) \div g>>

Zero == <<0, 1>>
One == <<1, 1>>
NaN == <<0, 0>>
Rat(n) == <<n, 1>>
Frac(n, d) == Norm(n, d)

RMul(x, y) ==
    IF x = One THEN y
    ELSE IF y = One THEN x
    ELSE IF x[2] = 0 \/ y[2] = 0 THEN <<Sgn(x[1]) * Sgn(y[1]), 0>>
    ELSE IF x[1] = 0 \/ y[1] = 0 THEN Zero
    ELSE LET g1 == GCD(Abs(x[1]), y[2])
             g2 == GCD(Abs(y[1]), x[2])
         IN  <<(x[1] \div g1) * (y[1] \div g2), (x[2] \div g2) * (y[2] \div g1)>>

RAdd(x, y) ==
    IF x[2] = 0 /\ y[2] = 0 THEN (IF x[1] = y[1] THEN x ELSE NaN)
    ELSE IF x[2] = 0 THEN x
    ELSE IF y[2] = 0 THEN y
    ELSE IF x[2] = y[2] THEN Norm(x[1] + y[1], x[2])
    ELSE LET g == GCD(x[2], y[2])
         IN  Norm(x[1] * (y[2] \div g) + y[1] * (x[2] \div g), (x[2] \div g) * y[2])

RNeg(x) == <<-x[1], x[2]>>

RSub(x, y) == RAdd(x, RNeg(y))

RInv(x) == IF x[1] < 0 THEN <<-x[2], -x[1]>> ELSE <<x[2], x[1]>>

RDiv(x, y) == RMul(x, RInv(y))

\* x < y as IEEE compares: false when either side is nan
RLt(x, y) ==
    IF x = NaN \/ y = NaN THEN FALSE
    ELSE IF x[2] = 0 \/ y[2] = 0
         THEN (IF x[2] = 0 THEN x[1] ELSE 0) < (IF y[2] = 0 THEN y[1] ELSE 0)
         ELSE x[1] * y[2] < y[1] * x[2]

RLe(x, y) == x # NaN /\ y # NaN /\ ~RLt(y, x)

\* f[lo] * f[lo+1] * ... * f[hi-1]; np.product of an empty slice is 1.0
\* (the slice is halved rather than walked: the arithmetic is exact, so the
\* order of the multiplications does not matter)
RECURSIVE ProdRange(_, _, _)
ProdRange(f, lo, hi) ==
    IF lo >= hi THEN One
    ELSE IF hi = lo + 1 THEN f[lo]
    ELSE LET mid == (lo + hi) \div 2
         IN  RMul(ProdRange(f, lo, mid), ProdRange(f, mid, hi))

\* f[lo] + ... + f[hi-1]; the sum of an empty slice is 0.0
RECURSIVE SumRange(_, _, _)
SumRange(f, lo, hi) ==
    IF lo >= hi THEN Zero
    ELSE IF hi = lo + 1 THEN f[lo]
    ELSE LET mid == (lo + hi) \div 2
         IN  RAdd(SumRange(f, lo, mid), SumRange(f, mid, hi))

\* the function f, tabulated: its values are computed once, not at each use
Tab(f) == f @@ <<>>

\* the same for a matrix f[s][j]
Tab2(f) == Tab([s \in DOMAIN f |-> Tab(f[s])])

\* np.mean of the slice f[lo:hi]; nan for an empty slice
MeanRange(f, lo, hi) == RDiv(SumRange(f, lo, hi), Rat(Max(hi - lo, 0)))

\* ------------------------------------------------------------------------
\* State
\* ------------------------------------------------------------------------
VARIABLES
    data_raw,       \* module level: the population table, a deep copy (l. 63)
    data,           \* module level: rows 16..75 of the population table (l. 64)
    children_rate,  \* module level: survival rates of the ages below 15 (l. 76)
    poly_surv,      \* polyval of the fitted survival polynomial (l. 105)
    poly_imm,       \* polyval of the fitted immigration polynomial (l. 152)
    poly_fert,      \* polyval of the fitted fertility polynomial (l. 183)
    pc,             \* "idle" | "loop" | "error": where get_omega is
    S, J, T,        \* the arguments of the call of get_omega in progress
    t,              \* the loop variable of get_omega's time loop
    surv_array,     \* get_omega's local, get_survival(S, J)
    imm_array,      \* get_omega's local, get_immigration(S, J)[0]
    children_im,    \* get_omega's local, get_immigration(S, J)[1]
    fert_rate,      \* get_omega's local, get_fert(S, J)[0]
    pop_2010,       \* get_immigration's local: the predicted survivors
    perc_change,    \* get_immigration's local, after perc_change[:-1]
    omega_big,      \* get_omega's local, the T x S x J tensor
    children,       \* get_omega's local, the 15 x J children state
    returned        \* the calls of get_omega that returned: <<S, J, T>>, tensor

vars == <<data_raw, data, children_rate, poly_surv, poly_imm, poly_fert, pc,
          S, J, T, t, surv_array, imm_array, children_im, fert_rate, pop_2010,
          perc_change, omega_big, children, returned>>

\* ------------------------------------------------------------------------
\* Inputs: the tables read at import and the fitted curves
\* ------------------------------------------------------------------------
YearIndex(y) == CASE y = "2010" -> 0 [] y = "2011" -> 1 [] y = "2012" -> 2 [] OTHER -> 3

\* a population table: counts 1..MaxCount at the ages 16..75 and, with
\* `outside`, at all other ages too (otherwise nobody is outside 16..75)
Table(outside) ==
    [y \in Years |->
        [a \in 0..LastAge |->
            IF outside \/ (AgeLo <= a /\ a < AgeHi)
            THEN 1 + ((a + YearIndex(y)) % MaxCount)
            ELSE 0]]

\* a curve of n points that is 1 except at the points of pos, where it is v
Curve(n, pos, v) == [i \in 0..(n - 1) |-> IF i \in pos THEN v ELSE One]

\* mort_data.surv_rate for the ages 0..14: probabilities
ChildRates == {Curve(NChildren, {0, 14}, Frac(1, 2)), Curve(NChildren, {13}, Frac(1, 2))}

\* values of the fitted survival polynomial: above 1, below 0, in between
SurvCurves ==
    {Curve(NPoints, {0, 1}, Rat(-2)), Curve(NPoints, {1}, Rat(2)),
     Curve(NPoints, {2, NPoints - 3}, Frac(1, 2))}

ImmCurves == {Curve(NImm, {ImmLo}, Rat(2)), Curve(NImm, {0, ImmLo + 1}, Frac(1, 2))}

\* a curve of n points that is 0 except at the points of sp, where it is sp[i]
Points(n, sp) == [i \in 0..(n - 1) |-> IF i \in DOMAIN sp THEN Rat(sp[i]) ELSE Zero]

\* values of the fitted fertility polynomial: negative somewhere, positive
\* beyond age 50 as well (multiples of 60, so that the cohort means are whole)
FertCurves ==
    {Points(NPoints, 3 :> -60 @@ 5 :> 120 @@ (NPoints - 2) :> 60),
     Points(NPoints, 4 :> 120 @@ 31 :> 60 @@ (NPoints - 2) :> 120)}

\* data = data[16:76]: rows 16..75 by position, the index being the age
Restrict(tab) == [y \in Years |-> [a \in AgeLo..(AgeHi - 1) |-> Rat(tab[y][a])]]

\* ------------------------------------------------------------------------
\* get_survival
\* ------------------------------------------------------------------------
\* the loop of lines 106-108: values above 1.0 become 1.0
survival_rate ==
    [i \in 0..(NPoints - 1) |-> IF RLt(One, poly_surv[i]) THEN One ELSE poly_surv[i]]

\* SliceHi with the final group stretched to the end of the array, taking in
\* the points the integer division leaves over
SliceHi_absorbing(s, S_, n) == IF s = S_ - 1 THEN n ELSE Min((s + 1) * (NPoints \div S_), n)

\* the slice [s*(60/S) : (s+1)*(60/S)] of an array of n entries: its first
\* index and the index after its last; 60/S is Python 2's integer division
SliceLo(s, S_, n) == Min(s * (NPoints \div S_), n)

SliceHi(s, S_, n) == Min((s + 1) * (NPoints \div S_), n)

surv_rate_condensed(S_) ==
    [s \in 0..(S_ - 1) |->
        IF s = S_ - 1 THEN Zero
        ELSE ProdRange(survival_rate, SliceLo(s, S_, NPoints), SliceHi(s, S_, NPoints))]

\* np.tile(v.reshape(n, 1), (1, J))
Tile(v, n, J_) == [s \in 0..(n - 1) |-> [j \in 0..(J_ - 1) |-> v[s]]]

get_survival(S_, J_) == Tile(surv_rate_condensed(S_), S_, J_)

\* ------------------------------------------------------------------------
\* get_fert
\* ------------------------------------------------------------------------
\* np.linspace(15, 75, 60)[i] > 50, i.e. 15 + 60 i / 59 > 50, and < 10
AgeAbove(i, age) == FitLo * (NPoints - 1) + (FitHi - FitLo) * i > age * (NPoints - 1)

AgeBelow(i, age) == FitLo * (NPoints - 1) + (FitHi - FitLo) * i < age * (NPoints - 1)

\* fert_rate_clamped without the test of line 189 for negative rates
fert_rate_unclamped ==
    [i \in 0..(NPoints - 1) |->
        IF AgeAbove(i, FertMaxAge) \/ AgeBelow(i, FertMinAge) THEN Zero ELSE poly_fert[i]]

\* the loop of lines 186-190
fert_rate_clamped ==
    [i \in 0..(NPoints - 1) |->
        LET v == IF AgeAbove(i, FertMaxAge) \/ AgeBelow(i, FertMinAge)
                 THEN Zero ELSE poly_fert[i]
        IN  IF RLt(v, Zero) THEN Zero ELSE v]

fert_rate_condensed(S_) ==
    [s \in 0..(S_ - 1) |->
        MeanRange(fert_rate_clamped, SliceLo(s, S_, NPoints), SliceHi(s, S_, NPoints))]

\* fert_rate /= 2.0 after the tiling
get_fert(S_, J_) ==
    [s \in 0..(S_ - 1) |-> [j \in 0..(J_ - 1) |-> RDiv(fert_rate_condensed(S_)[s], Rat(2))]]

\* ------------------------------------------------------------------------
\* get_immigration
\* ------------------------------------------------------------------------
\* np.array(list(children_rate) + list(get_survival(60, 1))): 75 entries
imm_surv_array ==
    [i \in 0..(NChildren + NPoints - 1) |->
        IF i < NChildren THEN children_rate[i]
        ELSE get_survival(NPoints, 1)[i - NChildren][0]]

\* pop_2010 = pop_2010[1:76] * surv_array
imm_pop_2010 ==
    [i \in 0..(PopHi - PopLo - 1) |-> RMul(Rat(data_raw["2010"][PopLo + i]), imm_surv_array[i])]

\* pop_2011 = pop_2011[2:77]
imm_pop_2011 == [i \in 0..(PopHi - PopLo - 1) |-> Rat(data_raw["2011"][PopLo + 1 + i])]

\* perc_change = ((pop_2011 - pop_2010) / pop_2010) + 1.0, then [:-1]
imm_perc_change ==
    [i \in 0..(PopHi - PopLo - 2) |->
        RAdd(RDiv(RSub(imm_pop_2011[i], imm_pop_2010[i]), imm_pop_2010[i]), One)]

\* im_array[15:76] of the 74 fitted values: 59 entries
im_array2 == [k \in 0..(Min(ImmHi, NImm) - ImmLo - 1) |-> poly_imm[ImmLo + k]]

imm_rate_condensed(S_) ==
    [s \in 0..(S_ - 2) |->
        ProdRange(im_array2, SliceLo(s, S_, Min(ImmHi, NImm) - ImmLo),
                  SliceHi(s, S_, Min(ImmHi, NImm) - ImmLo))]

get_immigration(S_, J_) ==
    [im_array2   |-> Tile(imm_rate_condensed(S_), S_ - 1, J_),
     children_im |-> [i \in 0..(NChildIm - 1) |-> poly_imm[i]]]

\* ------------------------------------------------------------------------
\* get_omega
\* ------------------------------------------------------------------------
\* the arguments tried: S divides 60 (1, 2, 3, 60), does not (7), exceeds it (80)
SValues == {1, 2, 3, 7, 60, 80}

TValues == {1, 2, 3, MaxT}

\* normalized with each year divided by its total over the whole raw table
normalized_by_raw_total(d) ==
    [y \in Years |->
        LET total == SumRange([a \in 0..LastAge |-> Rat(data_raw[y][a])], 0, LastAge + 1)
        IN  Tab([a \in AgeLo..(AgeHi - 1) |-> RDiv(d[y][a], total)])]

\* lines 220-228: each year's column of `data` divided by its own total
normalized(d) ==
    [y \in Years |->
        LET total == SumRange(d[y], AgeLo, AgeHi)
        IN  Tab([a \in AgeLo..(AgeHi - 1) |-> RDiv(d[y][a], total)])]

\* age_groups[ind] <= a < age_groups[ind+1], age_groups = linspace(16, 76, S+1)
InAgeGroup(a, ind, S_) ==
    /\ AgeLo * S_ + (AgeHi - AgeLo) * ind <= a * S_
    /\ a * S_ < AgeLo * S_ + (AgeHi - AgeLo) * (ind + 1)

\* lines 230-237: the 2010 shares summed by age group, tiled and divided by J
new_omega(d, S_, J_) ==
    [s \in 0..(S_ - 1) |->
        [j \in 0..(J_ - 1) |->
            RDiv(SumRange([a \in AgeLo..(AgeHi - 1) |->
                              IF InAgeGroup(a, s, S_) THEN d["2010"][a] ELSE Zero],
                          AgeLo, AgeHi),
                 Rat(J_))]]

\* (om * fert_rate).sum(0)[j]
births(om, fert, S_, j) == SumRange([s \in 0..(S_ - 1) |-> RMul(om[s][j], fert[s][j])], 0, S_)

\* seed_children discounting class ind by one year too many
seed_children_one_more(om, fert, cim, S_, ind, j) ==
    RMul(RMul(births(om, fert, S_, j), ProdRange(children_rate, 0, ind + 1)),
         ProdRange(cim, 0, Min(ind, NChildIm)))

\* lines 244-247: children[ind, j] before the time loop
seed_children(om, fert, cim, S_, ind, j) ==
    RMul(RMul(births(om, fert, S_, j), ProdRange(children_rate, 0, ind)),
         ProdRange(cim, 0, Min(ind, NChildIm)))

\* new_entrants read after the children were aged in the same iteration
new_entrants_after_aging(j) ==
    RMul(RMul(RMul(RMul(children[NChildren - 2][j], children_rate[NChildren - 2]),
                   children_im[NChildren - 2]),
              children_rate[NChildren - 1]),
         imm_array[0][j])

\* line 250: omega_big[t, 0, j]
new_entrants(j) == RMul(RMul(children[NChildren - 1][j], children_rate[NChildren - 1]), imm_array[0][j])

\* aged_cohort without the shift by one cohort
aged_cohort_unshifted(s, j) == RMul(RMul(omega_big[t - 1][s][j], surv_array[s][j]), imm_array[s - 1][j])

\* lines 251-252: omega_big[t, s, j] for s >= 1
aged_cohort(s, j) == RMul(RMul(omega_big[t - 1][s - 1][j], surv_array[s - 1][j]), imm_array[s - 1][j])

\* lines 253-254: children[i, j] for i >= 1, from the children before the step
aged_child(i, j) == RMul(RMul(children[i - 1][j], children_rate[i - 1]), children_im[i - 1])

\* lines 250-252: the slice omega_big[t] the iteration writes
next_slice == [s \in 0..(S - 1) |-> [j \in 0..(J - 1) |-> IF s = 0 THEN new_entrants(j) ELSE aged_cohort(s, j)]]

\* next_children with the births taken from the previous period's slice
next_children_from_previous(om) ==
    [i \in 0..(NChildren - 1) |->
        [j \in 0..(J - 1) |->
            IF i = 0 THEN births(omega_big[t - 1], fert_rate, S, j)
            ELSE RMul(RMul(children[i - 1][j], children_rate[i - 1]), children_im[i - 1])]]

\* lines 253-255: the children after the iteration; om is the slice just written
next_children(om) ==
    [i \in 0..(NChildren - 1) |->
        [j \in 0..(J - 1) |-> IF i = 0 THEN births(om, fert_rate, S, j) ELSE aged_child(i, j)]]

Init ==
    /\ \E outside \in BOOLEAN :
          /\ data_raw = Table(outside)
          /\ data = Restrict(Table(outside))
    /\ children_rate \in ChildRates
    /\ poly_surv \in SurvCurves
    /\ poly_imm \in ImmCurves
    /\ poly_fert \in FertCurves
    /\ pc = "idle"
    /\ S = 0 /\ J = 0 /\ T = 0 /\ t = 0
    /\ surv_array = <<>> /\ imm_array = <<>> /\ children_im = <<>> /\ fert_rate = <<>>
    /\ pop_2010 = <<>> /\ perc_change = <<>>
    /\ omega_big = <<>> /\ children = <<>>
    /\ returned = <<>>

\* get_omega(S_, J_, T_) up to the time loop (lines 218-247); the caller
\* repeats its first call
GetOmegaCall(S_, J_, T_) ==
    /\ pc = "idle"
    /\ Len(returned) < MaxCalls
    /\ S_ * J_ * T_ <= MaxCells
    /\ returned # <<>> => <<S_, J_, T_>> = returned[1].args
    /\ \E d \in {Tab(normalized(data))} :
       \E om \in {Tab2(new_omega(d, S_, J_))} :
       \E imm \in {get_immigration(S_, J_)} :
       \E fr \in {Tab2(get_fert(S_, J_))} :
          /\ data' = d
          /\ surv_array' = get_survival(S_, J_)
          /\ imm_array' = imm.im_array2
          /\ children_im' = imm.children_im
          /\ pop_2010' = imm_pop_2010
          /\ perc_change' = imm_perc_change
          /\ fert_rate' = fr
          /\ omega_big' = [tt \in 0..(T_ - 1) |-> om]
          /\ children' = [ind \in 0..(NChildren - 1) |->
                            [j \in 0..(J_ - 1) |->
                                seed_children(om, fr, imm.children_im, S_, ind, j)]]
    /\ S' = S_ /\ J' = J_ /\ T' = T_
    /\ t' = 1
    /\ pc' = "loop"
    /\ UNCHANGED <<data_raw, children_rate, poly_surv, poly_imm, poly_fert, returned>>

\* one iteration of `for t in xrange(1, T)` (lines 250-255)
LoopStep ==
    /\ pc = "loop"
    /\ t < T
    /\ S > 1
    /\ \E om \in {Tab2(next_slice)} :
          /\ omega_big' = [omega_big EXCEPT ![t] = om]
          /\ children' = next_children(om)
    /\ t' = t + 1
    /\ UNCHANGED <<data_raw, data, children_rate, poly_surv, poly_imm, poly_fert, pc,
                   S, J, T, surv_array, imm_array, children_im, fert_rate,
                   pop_2010, perc_change, returned>>

\* line 250 with S = 1: imm_array has no row 0, imm_array[0] raises IndexError
RaiseIndexError ==
    /\ pc = "loop"
    /\ t < T
    /\ S = 1
    /\ pc' = "error"
    /\ UNCHANGED <<data_raw, data, children_rate, poly_surv, poly_imm, poly_fert,
                   S, J, T, t, surv_array, imm_array, children_im, fert_rate,
                   pop_2010, perc_change, omega_big, children, returned>>

\* line 256: return omega_big
Return ==
    /\ pc = "loop"
    /\ t >= T
    /\ returned' = Append(returned, [args |-> <<S, J, T>>, omega |-> omega_big])
    /\ pc' = "idle"
    /\ UNCHANGED <<data_raw, data, children_rate, poly_surv, poly_imm, poly_fert,
                   S, J, T, t, surv_array, imm_array, children_im, fert_rate,
                   pop_2010, perc_change, omega_big, children>>

Next ==
    \/ \E S_ \in SValues, J_ \in 1..MaxJ, T_ \in TValues : GetOmegaCall(S_, J_, T_)
    \/ LoopStep
    \/ RaiseIndexError
    \/ Return

Spec == Init /\ [][Next]_vars

\* ------------------------------------------------------------------------
\* Claims
\* ------------------------------------------------------------------------
\* a call of get_omega has got past line 247 (its locals are set)
Called == pc # "idle" \/ returned # <<>>

\* S is a positive divisor of 60
ValidS == S >= 1 /\ NPoints % S = 0

Cells == {<<s, j>> \in (0..(S - 1)) \X (0..(J - 1)) : TRUE}

\* the births of a slice, discounted over the 15 years of childhood, entering
\* the first cohort
Entrants(slice, j) ==
    RMul(RMul(RMul(births(slice, fert_rate, S, j), ProdRange(children_rate, 0, NChildren)),
              ProdRange(children_im, 0, NChildIm)),
         imm_array[0][j])

\* C1: every slice t >= 1 the loop has written holds, at each cohort s >= 1,
\* the previous slice's cohort s-1 times survival[s-1] times immigration[s-1]
\* (so the terminal cohort of t-1 feeds nothing), and at cohort 0 the entrants
\* born 15 periods earlier (or implied by slice 0): no cell keeps the tiling.
C1_Aging ==
    (Called /\ pc # "error") =>
        \A tt \in 1..(t - 1) : \A j \in 0..(J - 1) :
            /\ \A s \in 1..(S - 1) :
                  omega_big[tt][s][j] =
                      RMul(RMul(omega_big[tt - 1][s - 1][j], surv_array[s - 1][j]),
                           imm_array[s - 1][j])
            /\ omega_big[tt][0][j] = Entrants(omega_big[Max(tt - NChildren, 0)], j)

\* a run of three cohorts in which aging changed every cell of slice 1
C1_Witness ==
    /\ pc = "loop" /\ S = 3 /\ t = 3
    /\ \A s \in 0..2 : omega_big[1][s][0] # omega_big[0][s][0]
    /\ omega_big[2][2][0] # omega_big[1][2][0]

\* C2 (as claimed): a call of get_omega leaves the module-level population
\* table as it was at import, and two calls with the same arguments return
\* the same tensor.
C2_Deterministic ==
    /\ returned # <<>> => data = Restrict(data_raw)
    /\ \A m, n \in 1..Len(returned) :
          returned[m].args = returned[n].args => returned[m].omega = returned[n].omega

\* C3 (as claimed): for S dividing 60 every entry of get_survival(S, J) is at
\* most 1, whatever the fitted values.
C3_SurvivalAtMostOne ==
    (Called /\ ValidS) => \A c \in Cells : RLe(surv_array[c[1]][c[2]], One)

\* the sum of slice 0 over all cohorts and ability types
SumSlice0 ==
    SumRange([s \in 0..(S - 1) |-> SumRange(omega_big[0][s], 0, J)], 0, S)

NoMassOutside ==
    \A a \in 0..LastAge : (a < AgeLo \/ a >= AgeHi) => data_raw["2010"][a] = 0

\* C4 (as claimed): the shares sum to 1 over the full raw age range, so slice 0
\* sums to 1 exactly when no mass lies outside [16, 76) and to less otherwise.
C4_FullRangeNormalization ==
    Called =>
        /\ NoMassOutside => SumSlice0 = One
        /\ ~NoMassOutside => RLt(SumSlice0, One)

\* C4 (amended): each year is normalized by its total over the rows 16..75,
\* so each column of the table sums to 1 over those rows and slice 0 sums to
\* 1, whether or not mass lies outside [16, 76).
C4_RestrictedNormalization ==
    Called =>
        /\ \A y \in Years : SumRange(data[y], AgeLo, AgeHi) = One
        /\ SumSlice0 = One

C4_Witness == Called /\ ~NoMassOutside /\ S = 7 /\ J = 2 /\ SumSlice0 = One

\* C5: the iteration for period t sets cohort 0 to children[14] *
\* child_survival[14] * immigration[0], children being the state left by
\* period t-1 (before this iteration ages it).
C5_Entrants ==
    [][(pc = "loop" /\ t' = t + 1) =>
          \A j \in 0..(J - 1) :
              omega_big'[t][0][j] =
                  RMul(RMul(children[NChildren - 1][j], children_rate[NChildren - 1]),
                       imm_array[0][j])]_vars

\* the second transition has run, and the entrants differ from the seeded
\* value of the oldest children class, which the step has replaced
C5_Witness ==
    /\ pc = "loop" /\ t = 3 /\ S = 3
    /\ omega_big[2][0][0] # Zero
    /\ omega_big[2][0][0] # omega_big[0][0][0]

\* the age of evaluation point i, times 59: 15 + 60 i / 59
PointAge59(i) == FitLo * (NPoints - 1) + (FitHi - FitLo) * i

OutsideFertileAges(i) ==
    PointAge59(i) > FertMaxAge * (NPoints - 1) \/ PointAge59(i) < FertMinAge * (NPoints - 1)

\* C6: for S dividing 60 every entry of get_fert(S, J) is >= 0, and a cohort
\* whose evaluation points are all above age 50 or below age 10 has rate 0.
C6_FertNonNegative ==
    (Called /\ ValidS) =>
        \A c \in Cells :
            /\ RLe(Zero, fert_rate[c[1]][c[2]])
            /\ (\A i \in (c[1] * (NPoints \div S))..((c[1] + 1) * (NPoints \div S) - 1) :
                    OutsideFertileAges(i))
                 => fert_rate[c[1]][c[2]] = Zero

\* a negative fitted value in cohort 0, nonzero fitted values in cohort 2,
\* which lies wholly above age 50
C6_Witness ==
    /\ pc = "loop" /\ S = 3
    /\ RLt(poly_fert[3], Zero) /\ RLt(Zero, poly_fert[NPoints - 2])
    /\ fert_rate[2][0] = Zero /\ RLt(Zero, fert_rate[0][0])

\* the one-year survival probability of age a: the mortality table below 15,
\* the fitted curve of get_survival(60, 1) from 15 on
SurvivalOfAge(a) ==
    IF a < NChildren THEN children_rate[a] ELSE get_survival(NPoints, 1)[a - NChildren][0]

\* C7 (as claimed): the 2010 count at each compared age a is multiplied by the
\* survival probability of that same age a and compared with the 2011 count
\* at age a+1; the final element, zeroed by the terminal rate, is dropped.
C7_SameAgeSurvival ==
    Called =>
        /\ \A a \in PopLo..(PopHi - 2) :
              /\ pop_2010[a - PopLo] = RMul(Rat(data_raw["2010"][a]), SurvivalOfAge(a))
              /\ perc_change[a - PopLo] =
                    RAdd(RDiv(RSub(Rat(data_raw["2011"][a + 1]), pop_2010[a - PopLo]),
                              pop_2010[a - PopLo]), One)
        /\ pop_2010[PopHi - PopLo - 1] = Zero
        /\ DOMAIN perc_change = 0..(PopHi - PopLo - 2)

\* C8: an iteration ages the children from their values before the step,
\* children[i+1] = children[i] * child_survival[i] * child_immigration[i], and
\* sets children[0] to the births of the slice it has just written, which
\* are not aged in the same step.
C8_ChildrenStep ==
    [][(pc = "loop" /\ t' = t + 1) =>
          \A j \in 0..(J - 1) :
              /\ \A i \in 0..(NChildren - 2) :
                    children'[i + 1][j] =
                        RMul(RMul(children[i][j], children_rate[i]), children_im[i])
              /\ children'[0][j] =
                    SumRange([s \in 0..(S - 1) |-> RMul(omega_big'[t][s][j], fert_rate[s][j])],
                             0, S)]_vars

\* after the second transition the newborns differ from those of the step
\* before, now one year old, and from the births of the previous slice
C8_Witness ==
    /\ pc = "loop" /\ t = 3 /\ S = 3
    /\ children[0][0] # children[1][0]
    /\ children[0][0] # births(omega_big[1], fert_rate, S, 0)
    /\ children[1][0] # Zero

\* the source points of cohort group s: indices GroupLo(s) .. GroupLo(s+1) - 1
GroupLo(s) == s * (NPoints \div S)

\* C9 (as claimed): for S not dividing 60 the call raises nothing, the first
\* S-1 groups are full and only the final group is short of source points.
C9_OnlyFinalGroupShort ==
    (Called /\ S >= 1 /\ NPoints % S # 0) =>
        /\ pc # "error"
        /\ \A s \in 0..(S - 2) :
              /\ SliceHi(s, S, NPoints) - SliceLo(s, S, NPoints) = NPoints \div S
              /\ SliceHi(S - 1, S, NPoints) - SliceLo(S - 1, S, NPoints)
                    < SliceHi(s, S, NPoints) - SliceLo(s, S, NPoints)

\* C9 (amended): for S not dividing 60 the call raises nothing and every
\* group, the final one included, is made of exactly floor(60/S) consecutive
\* points, group s of the points s*floor(60/S) onwards; the points from
\* S*floor(60/S) on enter no group (for S > 60 every group is empty: the
\* survival product is 1 and the fertility mean is nan).
C9_EveryGroupTruncated ==
    (Called /\ S >= 1 /\ NPoints % S # 0) =>
        /\ pc # "error"
        /\ \A c \in Cells :
              /\ SliceHi(c[1], S, NPoints) - SliceLo(c[1], S, NPoints) = NPoints \div S
              /\ GroupLo(S) <= NPoints
              /\ fert_rate[c[1]][c[2]] =
                    RDiv(MeanRange(fert_rate_clamped, GroupLo(c[1]), GroupLo(c[1] + 1)), Rat(2))
              /\ surv_array[c[1]][c[2]] =
                    IF c[1] = S - 1 THEN Zero
                    ELSE ProdRange(survival_rate, GroupLo(c[1]), GroupLo(c[1] + 1))

\* get_omega(80, 1, 1) has returned: every group is empty
C9_Witness ==
    /\ returned # <<>> /\ returned[1].args = <<80, 1, 1>>
    /\ fert_rate[79][0] = NaN /\ surv_array[0][0] = One

\* the seeded value of children class i, from slice 0
Seed(i, j) ==
    RMul(RMul(births(omega_big[0], fert_rate, S, j), ProdRange(children_rate, 0, i)),
         ProdRange(children_im, 0, i))

\* C10: the seeded children are a fixed point of the aging step, so after k
\* transitions (k <= 14) the classes k..14 still hold their seeds, the
\* entrants are the same in the periods 1..15, and the births computed in
\* the loop (at period 1) first enter the first cohort at period 16.
C10_SeedFixedPoint ==
    (Called /\ pc # "error" /\ S > 1) =>
        \A j \in 0..(J - 1) :
            /\ \A i \in 0..(NChildren - 2) :
                  Seed(i + 1, j) = RMul(RMul(Seed(i, j), children_rate[i]), children_im[i])
            /\ \A i \in Min(t - 1, NChildren)..(NChildren - 1) : children[i][j] = Seed(i, j)
            /\ \A tt \in 1..Min(NChildren, t - 1) : omega_big[tt][0][j] = omega_big[1][0][j]
            /\ t > NChildren + 1 =>
                  omega_big[NChildren + 1][0][j] = Entrants(omega_big[1], j)

\* period 16 has been written and its entrants differ from those of period 15
C10_Witness ==
    /\ Called /\ pc # "error" /\ S > 1 /\ t > NChildren + 1
    /\ omega_big[NChildren + 1][0][0] # omega_big[NChildren][0][0]
    /\ omega_big[NChildren][0][0] = omega_big[1][0][0]

====
